---- MODULE Spec2Model ----
(***************************************************************************)
(* Model of orchestrator/cosmos_gravity/src/send.rs: the claim assembler   *)
(* (send_ethereum_claims / create_claim_msgs), the confirmation senders    *)
(* (send_valset_confirms, send_batch_confirm, send_logic_call_confirm) and *)
(* the outbound transfer validator (send_to_eth).  One invocation of one   *)
(* of these functions is one run of the state machine; pc is the position  *)
(* inside the function body.                                               *)
(***************************************************************************)
EXTENDS Integers, Sequences, FiniteSets, TLC

\* ---------------------------------------------------------------- bounds
\* Largest total number of events over the five input lists when the events are
\* arbitrary (nonces may repeat, heights are unrelated to nonces).
MaxEvents == 2
\* `const MAX_ORACLE_MESSAGES: usize = 1000` (send.rs:343), scaled down so that
\* the model's inputs can exceed it.
MAX_ORACLE_MESSAGES == 2
\* Largest number of artifacts handed to a confirmation sender.
MaxArtifacts == 2
\* Largest magnitude of the amount and of the transaction fee in a transfer.
MaxAmount == 1

\* ---------------------------------------------------------------- helpers
None == [is_some |-> FALSE]
Some(x) == [is_some |-> TRUE, val |-> x]
Err(e) == [ok |-> FALSE, err |-> e]
Ok(x) == [ok |-> TRUE, val |-> x]

\* All orders in which the elements of a finite set can be enumerated.
Perms(S) ==
  {s \in [1..Cardinality(S) -> S] : \A i, j \in 1..Cardinality(S) : s[i] = s[j] => i = j}

\* All reorderings of a list.
PermsOfSeq(s) ==
  {[i \in 1..Len(s) |-> s[p[i]]] : p \in Perms(1..Len(s))}

\* Sequences over S of length at most n.
SeqUpTo(S, n) == UNION {[1..k -> S] : k \in 0..n}

\* ---------------------------------------------------------------- claims: data
\* The five event lists, in the order send_ethereum_claims chains them.
Variants == <<"deposits", "withdraws", "erc20_deploys", "logic_calls", "valsets">>
VariantSet == {Variants[i] : i \in 1..Len(Variants)}

Nonces == 1..3
Heights == {10, 20}
\* An EthereumEvent: get_event_nonce() and get_block_height().
Event == [event_nonce : Nonces, block_height : Heights]

\* Vec<ProtoErc20Token> values a snapshot can store under a height.
BalanceLists == {<< >>, <<[contract |-> "erc20", amount |-> 7]>>}
\* HashMap<Uint256, Vec<ProtoErc20Token>>
Snapshots == UNION {[S -> BalanceLists] : S \in SUBSET Heights}

our_cosmos_address == "gravity1orch"

\* EthereumEvent::to_claim_msg(orchestrator, eth_bals) for an event of list v.
ToClaimMsg(v, event, orchestrator, eth_bals) ==
  [claim |-> v, event |-> event, orchestrator |-> orchestrator, bridge_balances |-> eth_bals]

\* The events of list v among a flat list of tagged events, in order.
RECURSIVE ListOf(_, _)
ListOf(tagged, v) ==
  IF tagged = << >> THEN << >>
  ELSE IF Head(tagged)[1] = v THEN <<Head(tagged)[2]>> \o ListOf(Tail(tagged), v)
       ELSE ListOf(Tail(tagged), v)

\* Events as the bridge emits them: event nonces are unique over all variants
\* and a later event is not in an earlier block.
WellFormed(tagged) ==
  \A i, j \in 1..Len(tagged) :
    /\ (tagged[i][2].event_nonce = tagged[j][2].event_nonce) => i = j
    /\ (tagged[i][2].event_nonce < tagged[j][2].event_nonce)
          => tagged[i][2].block_height <= tagged[j][2].block_height

\* The inputs of send_ethereum_claims: every assignment of at most MaxEvents
\* arbitrary events to the five lists, and every assignment of any number of
\* well-formed events to them.
EventInputs ==
  {[v \in VariantSet |-> ListOf(t, v)] : t \in SeqUpTo(VariantSet \X Event, MaxEvents)}
    \cup {[v \in VariantSet |-> ListOf(t, v)] :
            t \in {u \in SeqUpTo(VariantSet \X Event, Cardinality(Nonces)) : WellFormed(u)}}

\* What the chain and the balance provider answer during one invocation.
\*   gov:      get_gravity_monitored_erc20s  -> Err | Ok(set of monitored tokens)
\*   provider: collect_eth_balances_for_claims -> Err | Ok(snapshot)
ClaimEnvs ==
  {[gov |-> Err("grpc"), provider |-> Err("unused")]}
    \cup {[gov |-> Ok({}), provider |-> Err("unused")]}
    \cup {[gov |-> Ok({"erc20"}), provider |-> p] :
            p \in {Err("web3")} \cup {Ok(s) : s \in Snapshots}}


\* ---------------------------------------------------------------- claims: pure steps
\* As create_claim_msgs, with `break` in place of `continue`: the first event
\* whose height is missing ends the loop.
RECURSIVE create_claim_msgs_break(_, _, _, _)
create_claim_msgs_break(eth_balances_by_block_height, v, events, orchestrator) ==
  IF events = << >> THEN << >>
  ELSE LET event == Head(events)
           present == ~eth_balances_by_block_height.is_some
                        \/ event.block_height \in DOMAIN eth_balances_by_block_height.val
           eth_bals == IF eth_balances_by_block_height.is_some
                         THEN eth_balances_by_block_height.val[event.block_height]
                         ELSE << >>
       IN IF present
            THEN <<<<event.event_nonce, ToClaimMsg(v, event, orchestrator, eth_bals)>>>>
                   \o create_claim_msgs_break(eth_balances_by_block_height, v, Tail(events),
                                              orchestrator)
            ELSE << >>

\* As create_claim_msgs, treating an empty stored balance list as a missing
\* height: the event is skipped.
RECURSIVE create_claim_msgs_nonempty(_, _, _, _)
create_claim_msgs_nonempty(eth_balances_by_block_height, v, events, orchestrator) ==
  IF events = << >> THEN << >>
  ELSE LET event == Head(events)
           eth_balances ==
             IF ~eth_balances_by_block_height.is_some
               THEN Some(<< >>)
               ELSE LET height == event.block_height
                        snap == eth_balances_by_block_height.val
                    IN IF height \in DOMAIN snap /\ snap[height] # << >>
                         THEN Some(snap[height]) ELSE None
           rest == create_claim_msgs_nonempty(eth_balances_by_block_height, v, Tail(events),
                                              orchestrator)
       IN IF eth_balances.is_some
            THEN <<<<event.event_nonce, ToClaimMsg(v, event, orchestrator, eth_balances.val)>>>>
                   \o rest
            ELSE rest

\* create_claim_msgs (send.rs:367-400): one (event_nonce, Msg) pair per event
\* whose balances are available, in input order.
RECURSIVE create_claim_msgs(_, _, _, _)
create_claim_msgs(eth_balances_by_block_height, v, events, orchestrator) ==
  IF events = << >> THEN << >>
  ELSE LET event == Head(events)
           eth_balances ==
             IF ~eth_balances_by_block_height.is_some
               THEN Some(<< >>)
               ELSE LET height == event.block_height
                        snap == eth_balances_by_block_height.val
                    IN IF height \in DOMAIN snap THEN Some(snap[height]) ELSE None
           rest == create_claim_msgs(eth_balances_by_block_height, v, Tail(events), orchestrator)
       IN IF eth_balances.is_some
            THEN <<<<event.event_nonce, ToClaimMsg(v, event, orchestrator, eth_balances.val)>>>> \o rest
            ELSE rest

\* deposit.chain(withdraw).chain(deploy).chain(logic).chain(valset) (send.rs:318-323)
RECURSIVE ChainFrom(_, _)
ChainFrom(nonces_msgs, i) ==
  IF i > Len(Variants) THEN << >>
  ELSE nonces_msgs[Variants[i]] \o ChainFrom(nonces_msgs, i + 1)

\* As MapInsert, without the report of an occupied key: the later claim
\* silently replaces the earlier one.
MapInsert_overwrite(map, nonce, msg) ==
  [map |-> [k \in DOMAIN map \cup {nonce} |-> IF k = nonce THEN msg ELSE map[k]],
   was_none |-> TRUE]

\* HashMap::insert(nonce, msg): the new map and whether the key was vacant.
MapInsert(map, nonce, msg) ==
  [map |-> [k \in DOMAIN map \cup {nonce} |-> IF k = nonce THEN msg ELSE map[k]],
   was_none |-> nonce \notin DOMAIN map]

\* .map(|(nonce, msg)| assert!(unordered_msgs.insert(nonce, msg).is_none()))
\* .for_each(drop) (send.rs:324-325): the populated map, or a panic at the first
\* insertion that finds its key occupied.
RECURSIVE InsertAll(_, _)
InsertAll(map, chain) ==
  IF chain = << >> THEN [panicked |-> FALSE, map |-> map]
  ELSE LET ins == MapInsert(map, Head(chain)[1], Head(chain)[2])
       IN IF ins.was_none THEN InsertAll(ins.map, Tail(chain))
          ELSE [panicked |-> TRUE, map |-> ins.map]

\* Insertion of x into an ascending list.
RECURSIVE SortedInsert(_, _)
SortedInsert(sorted, x) ==
  IF sorted = << >> THEN <<x>>
  ELSE IF x < Head(sorted) THEN <<x>> \o sorted
       ELSE <<Head(sorted)>> \o SortedInsert(Tail(sorted), x)

\* As sort_unstable, leaving the keys in the order the hash map yielded them.
sort_unstable_noop(keys) == keys

\* keys.sort_unstable() (send.rs:341): ascending order.
RECURSIVE sort_unstable(_)
sort_unstable(keys) ==
  IF keys = << >> THEN << >>
  ELSE SortedInsert(sort_unstable(Tail(keys)), Head(keys))

\* for i in keys { msgs.push(unordered_msgs.remove_entry(&i).unwrap().1) } (send.rs:345-348)
PushInOrder(map, keys) == [i \in 1..Len(keys) |-> map[keys[i]]]

\* As PopToCap, removing from the front: the highest nonces are kept.
RECURSIVE PopToCap_front(_)
PopToCap_front(msgs) ==
  IF Len(msgs) > MAX_ORACLE_MESSAGES THEN PopToCap_front(Tail(msgs))
  ELSE msgs

\* while msgs.len() > MAX_ORACLE_MESSAGES { msgs.pop(); } (send.rs:351-354)
RECURSIVE PopToCap(_)
PopToCap(msgs) ==
  IF Len(msgs) > MAX_ORACLE_MESSAGES THEN PopToCap(SubSeq(msgs, 1, Len(msgs) - 1))
  ELSE msgs


\* ---------------------------------------------------------------- confirmations: data
GravityIds == {"gravity-A", "gravity-B"}
eth_private_key == "ethkey"
our_eth_address == "0xorch"

\* Valset, TransactionBatch and LogicCall, reduced to the fields send.rs reads.
Valsets == [nonce : Nonces]
TransactionBatches == [nonce : Nonces, token_contract : {"0xtoken"}]
LogicCalls == [invalidation_id : {"ida", "idb"}, invalidation_nonce : Nonces]

\* encode_valset_confirm / encode_tx_batch_confirm / encode_logic_call_confirm:
\* the canonical encoding of an artifact under a domain identifier.
encode_confirm(kind, gravity_id, artifact) == <<kind, gravity_id, artifact>>
\* EthPrivateKey::sign_ethereum_msg
sign_ethereum_msg(key, message) == [signer |-> key, signed |-> message]
\* bytes_to_hex_str(&eth_signature.to_bytes())
bytes_to_hex_str(bytes) == <<"hex", bytes>>

\* ---------------------------------------------------------------- transfers: data
Denoms == {"ugraviton", "uatom"}
Coin(d, a) == [denom |-> d, amount |-> a]
Coins(maxAmount) == [denom : Denoms, amount : 0..maxAmount]

TransferRequests ==
  [amount : Coins(MaxAmount),
   bridge_fee : [denom : Denoms, amount : {1}],
   chain_fee : {None} \cup {Some(c) : c \in [denom : Denoms, amount : {1}]},
   fee : Coins(MaxAmount)]

\* Vec<Coin> answers of contact.get_balances: at most one entry per denomination.
BalanceAnswers ==
  {b \in SeqUpTo(Coins(3 * MaxAmount), Cardinality(Denoms)) :
     \A i, j \in 1..Len(b) : b[i].denom = b[j].denom => i = j}

\* ---------------------------------------------------------------- state
VARIABLES
  op,          \* which function of send.rs this invocation runs
  pc,          \* position inside it
  result,      \* what the invocation returned ("Running" until it returns)
  calls,       \* the external calls made so far, in order
  sent,        \* the message lists handed to contact.send_message, in order
  events,      \* claims: the five input lists
  env,         \* claims: the answers of the chain and of the balance provider
  prev,        \* claims: what the previous invocation on the same inputs sent
  must_monitor_erc20s,
  eth_balances_by_block_height,
  nonces_msgs,
  unordered_msgs,
  keys,
  msgs,        \* the message list under construction (msgs / messages)
  artifacts,   \* confirmations: the input list
  gravity_id,  \* confirmations: the domain identifier
  req,         \* send_to_eth: amount, bridge_fee, chain_fee, fee
  chain_fee,   \* send_to_eth: the chain fee after defaulting
  balances     \* send_to_eth: the answer of get_balances

vars == <<op, pc, result, calls, sent, events, env, prev, must_monitor_erc20s,
          eth_balances_by_block_height, nonces_msgs, unordered_msgs, keys, msgs,
          artifacts, gravity_id, req, chain_fee, balances>>

claimLocals == <<must_monitor_erc20s, eth_balances_by_block_height, nonces_msgs,
                 unordered_msgs, keys>>
claimInputs == <<events, env, prev>>
confirmInputs == <<artifacts, gravity_id>>
transferState == <<req, chain_fee, balances>>

NoEvents == [v \in VariantSet |-> << >>]
NoRequest == [amount |-> Coin("ugraviton", 0), bridge_fee |-> Coin("ugraviton", 1),
              chain_fee |-> None, fee |-> Coin("ugraviton", 0)]

\* The locals of an invocation before its first statement.
FreshLocals ==
  /\ result = "Running"
  /\ calls = << >>
  /\ sent = << >>
  /\ must_monitor_erc20s = FALSE
  /\ eth_balances_by_block_height = None
  /\ nonces_msgs = NoEvents
  /\ unordered_msgs = << >>
  /\ keys = << >>
  /\ msgs = << >>
  /\ chain_fee = None
  /\ balances = << >>

InitClaims ==
  /\ op = "send_ethereum_claims"
  /\ pc = "GetMonitored"
  /\ events \in EventInputs
  /\ env \in ClaimEnvs
  /\ prev = None
  /\ artifacts = << >>
  /\ gravity_id = "gravity-A"
  /\ req = NoRequest
  /\ FreshLocals

InitConfirm ==
  /\ \/ op = "send_valset_confirms" /\ artifacts \in SeqUpTo(Valsets, MaxArtifacts)
     \/ op = "send_batch_confirm" /\ artifacts \in SeqUpTo(TransactionBatches, MaxArtifacts)
     \/ op = "send_logic_call_confirm" /\ artifacts \in SeqUpTo(LogicCalls, MaxArtifacts)
  /\ pc = "BuildConfirms"
  /\ gravity_id \in GravityIds
  /\ events = NoEvents
  /\ env = [gov |-> Ok({}), provider |-> Err("unused")]
  /\ prev = None
  /\ req = NoRequest
  /\ FreshLocals

InitTransfer ==
  /\ op = "send_to_eth"
  /\ pc = "CheckBridgeFeeDenom"
  /\ req \in TransferRequests
  /\ events = NoEvents
  /\ env = [gov |-> Ok({}), provider |-> Err("unused")]
  /\ prev = None
  /\ artifacts = << >>
  /\ gravity_id = "gravity-A"
  /\ FreshLocals

Init == InitClaims \/ InitConfirm \/ InitTransfer

\* The function returns: nothing of the invocation runs afterwards.
Return(r) ==
  /\ result' = r
  /\ pc' = "Done"

\* As SendMessage, submitting the list a second time when the first submission
\* fails.
SendMessage_retry(messages, okResult) ==
  \E first \in {okResult, "Err_CosmosGrpc"} :
    IF first = okResult
      THEN /\ calls' = Append(calls, "send_message")
           /\ sent' = Append(sent, messages)
           /\ Return(okResult)
      ELSE /\ calls' = calls \o <<"send_message", "send_message">>
           /\ sent' = sent \o <<messages, messages>>
           /\ \E answer \in {okResult, "Err_CosmosGrpc"} : Return(answer)

\* contact.send_message(&messages, ..) : one call, answered by the chain with a
\* TxResponse or an error.
SendMessage(messages, okResult) ==
  /\ calls' = Append(calls, "send_message")
  /\ sent' = Append(sent, messages)
  /\ \E answer \in {okResult, "Err_CosmosGrpc"} : Return(answer)


\* ---------------------------------------------------------------- send_ethereum_claims
\* let monitored_erc20s = get_gravity_monitored_erc20s(..).await?;
\* let must_monitor_erc20s = !monitored_erc20s.is_empty();
GetMonitored ==
  /\ op = "send_ethereum_claims" /\ pc = "GetMonitored"
  /\ calls' = Append(calls, "get_gravity_monitored_erc20s")
  /\ IF env.gov.ok
       THEN /\ must_monitor_erc20s' = (env.gov.val # {})
            /\ pc' = "CollectBalances"
            /\ UNCHANGED result
       ELSE /\ Return("Err_Gov")
            /\ UNCHANGED must_monitor_erc20s
  /\ UNCHANGED <<op, sent, claimInputs, eth_balances_by_block_height, nonces_msgs,
                 unordered_msgs, keys, msgs, confirmInputs, transferState>>

\* let eth_balances_by_block_height = if must_monitor_erc20s
\*     { Some(collect_eth_balances_for_claims(..).await?) } else { None };
CollectBalances ==
  /\ op = "send_ethereum_claims" /\ pc = "CollectBalances"
  /\ IF must_monitor_erc20s
       THEN /\ calls' = Append(calls, "collect_eth_balances_for_claims")
            /\ IF env.provider.ok
                 THEN /\ eth_balances_by_block_height' = Some(env.provider.val)
                      /\ pc' = "CheckBalances"
                      /\ UNCHANGED result
                 ELSE /\ Return("Err_Provider")
                      /\ UNCHANGED eth_balances_by_block_height
       ELSE /\ eth_balances_by_block_height' = None
            /\ pc' = "CheckBalances"
            /\ UNCHANGED <<calls, result>>
  /\ UNCHANGED <<op, sent, claimInputs, must_monitor_erc20s, nonces_msgs,
                 unordered_msgs, keys, msgs, confirmInputs, transferState>>

\* As CheckBalances, without the check: an empty mapping is carried on.
CheckBalances_skip ==
  /\ op = "send_ethereum_claims" /\ pc = "CheckBalances"
  /\ pc' = "CreateClaims"
  /\ UNCHANGED <<op, result, calls, sent, claimInputs, claimLocals, msgs, confirmInputs,
                 transferState>>

\* Error if ERC20s should be monitored but we have no balances to report
CheckBalances ==
  /\ op = "send_ethereum_claims" /\ pc = "CheckBalances"
  /\ IF must_monitor_erc20s
        /\ (~eth_balances_by_block_height.is_some
            \/ DOMAIN eth_balances_by_block_height.val = {})
       THEN Return("Err_NoBalances")
       ELSE pc' = "CreateClaims" /\ UNCHANGED result
  /\ UNCHANGED <<op, calls, sent, claimInputs, claimLocals, msgs, confirmInputs,
                 transferState>>

\* The five create_claim_msgs calls.
CreateClaims ==
  /\ op = "send_ethereum_claims" /\ pc = "CreateClaims"
  /\ nonces_msgs' =
       [v \in VariantSet |->
          create_claim_msgs(eth_balances_by_block_height, v, events[v], our_cosmos_address)]
  /\ pc' = "InsertClaims"
  /\ UNCHANGED <<op, result, calls, sent, claimInputs, must_monitor_erc20s,
                 eth_balances_by_block_height, unordered_msgs, keys, msgs,
                 confirmInputs, transferState>>

\* Chain the five lists and insert every pair into unordered_msgs, asserting
\* that each insertion finds its nonce vacant.
InsertClaims ==
  /\ op = "send_ethereum_claims" /\ pc = "InsertClaims"
  /\ LET r == InsertAll(<< >>, ChainFrom(nonces_msgs, 1))
     IN /\ unordered_msgs' = r.map
        /\ IF r.panicked THEN Return("Panic")
                         ELSE pc' = "CheckEmpty" /\ UNCHANGED result
  /\ UNCHANGED <<op, calls, sent, claimInputs, must_monitor_erc20s,
                 eth_balances_by_block_height, nonces_msgs, keys, msgs,
                 confirmInputs, transferState>>

\* As CheckEmpty, without the early return: an empty map is carried on to the
\* dispatch.
CheckEmpty_skip ==
  /\ op = "send_ethereum_claims" /\ pc = "CheckEmpty"
  /\ pc' = "CollectKeys"
  /\ UNCHANGED <<op, result, calls, sent, claimInputs, claimLocals, msgs, confirmInputs,
                 transferState>>

\* if unordered_msgs.is_empty() { return Ok(None); }
CheckEmpty ==
  /\ op = "send_ethereum_claims" /\ pc = "CheckEmpty"
  /\ IF DOMAIN unordered_msgs = {}
       THEN Return("Ok_None")
       ELSE pc' = "CollectKeys" /\ UNCHANGED result
  /\ UNCHANGED <<op, calls, sent, claimInputs, claimLocals, msgs, confirmInputs,
                 transferState>>

\* for (key, _) in unordered_msgs.iter() { keys.push(*key); } : the hash map
\* yields its keys in an arbitrary order.
CollectKeys ==
  /\ op = "send_ethereum_claims" /\ pc = "CollectKeys"
  /\ \E order \in Perms(DOMAIN unordered_msgs) : keys' = order
  /\ pc' = "SortKeys"
  /\ UNCHANGED <<op, result, calls, sent, claimInputs, must_monitor_erc20s,
                 eth_balances_by_block_height, nonces_msgs, unordered_msgs, msgs,
                 confirmInputs, transferState>>

\* keys.sort_unstable();
SortKeys ==
  /\ op = "send_ethereum_claims" /\ pc = "SortKeys"
  /\ keys' = sort_unstable(keys)
  /\ pc' = "PushMsgs"
  /\ UNCHANGED <<op, result, calls, sent, claimInputs, must_monitor_erc20s,
                 eth_balances_by_block_height, nonces_msgs, unordered_msgs, msgs,
                 confirmInputs, transferState>>

\* for i in keys { msgs.push(unordered_msgs.remove_entry(&i).unwrap().1); }
PushMsgs ==
  /\ op = "send_ethereum_claims" /\ pc = "PushMsgs"
  /\ msgs' = PushInOrder(unordered_msgs, keys)
  /\ unordered_msgs' = << >>
  /\ pc' = "Truncate"
  /\ UNCHANGED <<op, result, calls, sent, claimInputs, must_monitor_erc20s,
                 eth_balances_by_block_height, nonces_msgs, keys, confirmInputs,
                 transferState>>

\* while msgs.len() > MAX_ORACLE_MESSAGES { msgs.pop(); }
Truncate ==
  /\ op = "send_ethereum_claims" /\ pc = "Truncate"
  /\ msgs' = PopToCap(msgs)
  /\ pc' = "DispatchClaims"
  /\ UNCHANGED <<op, result, calls, sent, claimInputs, claimLocals, confirmInputs,
                 transferState>>

\* contact.send_message(&msgs, None, &[fee], Some(TIMEOUT), key).await.map(Some)
DispatchClaims ==
  /\ op = "send_ethereum_claims" /\ pc = "DispatchClaims"
  /\ SendMessage(msgs, "Ok_Some")
  /\ UNCHANGED <<op, claimInputs, claimLocals, msgs, confirmInputs, transferState>>

\* A second, independent call of send_ethereum_claims with the same events per
\* list (in any order within each list) and the same answers of the chain and
\* of the balance provider.  What the first call did is kept in prev.
Reinvoke ==
  /\ op = "send_ethereum_claims" /\ pc = "Done" /\ ~prev.is_some
  /\ prev' = Some([result |-> result, sent |-> sent])
  /\ \E p1 \in PermsOfSeq(events[Variants[1]]), p2 \in PermsOfSeq(events[Variants[2]]),
        p3 \in PermsOfSeq(events[Variants[3]]), p4 \in PermsOfSeq(events[Variants[4]]),
        p5 \in PermsOfSeq(events[Variants[5]]) :
       events' = [v \in VariantSet |->
                    CASE v = Variants[1] -> p1 [] v = Variants[2] -> p2
                      [] v = Variants[3] -> p3 [] v = Variants[4] -> p4
                      [] OTHER -> p5]
  /\ pc' = "GetMonitored"
  /\ result' = "Running"
  /\ calls' = << >>
  /\ sent' = << >>
  /\ must_monitor_erc20s' = FALSE
  /\ eth_balances_by_block_height' = None
  /\ nonces_msgs' = NoEvents
  /\ unordered_msgs' = << >>
  /\ keys' = << >>
  /\ msgs' = << >>
  /\ UNCHANGED <<op, env, confirmInputs, transferState>>

SendEthereumClaims ==
  \/ GetMonitored \/ CollectBalances \/ CheckBalances \/ CreateClaims
  \/ InsertClaims \/ CheckEmpty \/ CollectKeys \/ SortKeys \/ PushMsgs
  \/ Truncate \/ DispatchClaims


\* ---------------------------------------------------------------- confirmation senders
\* The MsgValsetConfirm built for one valset (send.rs:108-121).
valset_confirm_msg(valset, id) ==
  LET message == encode_confirm("valset", id, valset)
      eth_signature == sign_ethereum_msg(eth_private_key, message)
  IN [type_url |-> "/gravity.v1.MsgValsetConfirm",
      orchestrator |-> our_cosmos_address,
      eth_address |-> our_eth_address,
      nonce |-> valset.nonce,
      signature |-> bytes_to_hex_str(eth_signature)]

\* The MsgConfirmBatch built for one transaction batch (send.rs:153-167).
batch_confirm_msg(batch, id) ==
  LET message == encode_confirm("batch", id, batch)
      eth_signature == sign_ethereum_msg(eth_private_key, message)
  IN [type_url |-> "/gravity.v1.MsgConfirmBatch",
      token_contract |-> batch.token_contract,
      orchestrator |-> our_cosmos_address,
      eth_signer |-> our_eth_address,
      nonce |-> batch.nonce,
      signature |-> bytes_to_hex_str(eth_signature)]

\* The MsgConfirmLogicCall built for one logic call (send.rs:197-211).
logic_call_confirm_msg(call, id) ==
  LET message == encode_confirm("logic_call", id, call)
      eth_signature == sign_ethereum_msg(eth_private_key, message)
  IN [type_url |-> "/gravity.v1.MsgConfirmLogicCall",
      orchestrator |-> our_cosmos_address,
      eth_signer |-> our_eth_address,
      signature |-> bytes_to_hex_str(eth_signature),
      invalidation_id |-> bytes_to_hex_str(call.invalidation_id),
      invalidation_nonce |-> call.invalidation_nonce]

\* for valset in valsets { .. messages.push(msg); }
BuildValsetConfirms ==
  /\ op = "send_valset_confirms" /\ pc = "BuildConfirms"
  /\ msgs' = [i \in 1..Len(artifacts) |-> valset_confirm_msg(artifacts[i], gravity_id)]
  /\ pc' = "DispatchConfirms"
  /\ UNCHANGED <<op, result, calls, sent, claimInputs, claimLocals, confirmInputs,
                 transferState>>

\* for batch in transaction_batches { .. messages.push(msg); }
BuildBatchConfirms ==
  /\ op = "send_batch_confirm" /\ pc = "BuildConfirms"
  /\ msgs' = [i \in 1..Len(artifacts) |-> batch_confirm_msg(artifacts[i], gravity_id)]
  /\ pc' = "DispatchConfirms"
  /\ UNCHANGED <<op, result, calls, sent, claimInputs, claimLocals, confirmInputs,
                 transferState>>

\* As BuildLogicCallConfirms, with the signature computed once, over the first
\* logic call, and attached to every message.
BuildLogicCallConfirms_crossed ==
  /\ op = "send_logic_call_confirm" /\ pc = "BuildConfirms"
  /\ msgs' = [i \in 1..Len(artifacts) |->
                [logic_call_confirm_msg(artifacts[i], gravity_id) EXCEPT
                   !.signature = logic_call_confirm_msg(artifacts[1], gravity_id).signature]]
  /\ pc' = "DispatchConfirms"
  /\ UNCHANGED <<op, result, calls, sent, claimInputs, claimLocals, confirmInputs,
                 transferState>>

\* for call in logic_calls { .. messages.push(msg); }
BuildLogicCallConfirms ==
  /\ op = "send_logic_call_confirm" /\ pc = "BuildConfirms"
  /\ msgs' = [i \in 1..Len(artifacts) |-> logic_call_confirm_msg(artifacts[i], gravity_id)]
  /\ pc' = "DispatchConfirms"
  /\ UNCHANGED <<op, result, calls, sent, claimInputs, claimLocals, confirmInputs,
                 transferState>>

\* contact.send_message(&messages, Some(MEMO), &[fee], Some(TIMEOUT), key).await
\* at the end of each of the three confirmation senders.
DispatchConfirms ==
  /\ op \in {"send_valset_confirms", "send_batch_confirm", "send_logic_call_confirm"}
  /\ pc = "DispatchConfirms"
  /\ SendMessage(msgs, "Ok_Tx")
  /\ UNCHANGED <<op, claimInputs, claimLocals, msgs, confirmInputs, transferState>>

SendConfirms ==
  \/ BuildValsetConfirms \/ BuildBatchConfirms \/ BuildLogicCallConfirms
  \/ DispatchConfirms

\* ---------------------------------------------------------------- send_to_eth
\* As scan_balances, counting the transaction fee once.
RECURSIVE scan_balances_once(_, _, _, _)
scan_balances_once(bals, amount, fee, found) ==
  IF bals = << >> THEN [insufficient |-> FALSE, found |-> found]
  ELSE LET balance == Head(bals)
       IN IF balance.denom = amount.denom
            THEN LET total_amount == amount.amount + fee.amount
                 IN IF balance.amount < total_amount
                      THEN [insufficient |-> TRUE, found |-> found]
                      ELSE scan_balances_once(Tail(bals), amount, fee, TRUE)
            ELSE scan_balances_once(Tail(bals), amount, fee, found)

\* The loop over the sender's balances (send.rs:441-453): whether it returned
\* the insufficient-balance error, and the value of `found` after it.
RECURSIVE scan_balances(_, _, _, _)
scan_balances(bals, amount, fee, found) ==
  IF bals = << >> THEN [insufficient |-> FALSE, found |-> found]
  ELSE LET balance == Head(bals)
       IN IF balance.denom = amount.denom
            THEN LET total_amount == amount.amount + (fee.amount * 2)
                 IN IF balance.amount < total_amount
                      THEN [insufficient |-> TRUE, found |-> found]
                      ELSE scan_balances(Tail(bals), amount, fee, TRUE)
            ELSE scan_balances(Tail(bals), amount, fee, found)

\* As CheckBridgeFeeDenom, comparing the bridge fee with the transaction fee
\* instead of with the amount.
CheckBridgeFeeDenom_wrong ==
  /\ op = "send_to_eth" /\ pc = "CheckBridgeFeeDenom"
  /\ IF req.fee.denom # req.bridge_fee.denom
       THEN Return("BadInput_BridgeFeeDenom")
       ELSE pc' = "DefaultChainFee" /\ UNCHANGED result
  /\ UNCHANGED <<op, calls, sent, claimInputs, claimLocals, msgs, confirmInputs,
                 transferState>>

\* if amount.denom != bridge_fee.denom { return Err(BadInput(..)); }
CheckBridgeFeeDenom ==
  /\ op = "send_to_eth" /\ pc = "CheckBridgeFeeDenom"
  /\ IF req.amount.denom # req.bridge_fee.denom
       THEN Return("BadInput_BridgeFeeDenom")
       ELSE pc' = "DefaultChainFee" /\ UNCHANGED result
  /\ UNCHANGED <<op, calls, sent, claimInputs, claimLocals, msgs, confirmInputs,
                 transferState>>

\* let chain_fee = match chain_fee { Some(fee) => fee, None => Coin { amount:
\*   get_reasonable_send_to_eth_fee(..).await.expect(..), denom: amount.denom } };
DefaultChainFee ==
  /\ op = "send_to_eth" /\ pc = "DefaultChainFee"
  /\ IF req.chain_fee.is_some
       THEN /\ chain_fee' = req.chain_fee
            /\ pc' = "CheckChainFeeDenom"
            /\ UNCHANGED <<calls, result>>
       ELSE /\ calls' = Append(calls, "get_reasonable_send_to_eth_fee")
            /\ \E answer \in {Err("grpc")} \cup {Ok(a) : a \in 0..1} :
                 IF answer.ok
                   THEN /\ chain_fee' = Some(Coin(req.amount.denom, answer.val))
                        /\ pc' = "CheckChainFeeDenom"
                        /\ UNCHANGED result
                   ELSE /\ Return("Panic")
                        /\ UNCHANGED chain_fee
  /\ UNCHANGED <<op, sent, claimInputs, claimLocals, msgs, confirmInputs, req, balances>>

\* if amount.denom != chain_fee.denom { return Err(BadInput(..)); }
CheckChainFeeDenom ==
  /\ op = "send_to_eth" /\ pc = "CheckChainFeeDenom"
  /\ IF req.amount.denom # chain_fee.val.denom
       THEN Return("BadInput_ChainFeeDenom")
       ELSE pc' = "GetBalances" /\ UNCHANGED result
  /\ UNCHANGED <<op, calls, sent, claimInputs, claimLocals, msgs, confirmInputs,
                 transferState>>

\* let balances = contact.get_balances(our_address).await.unwrap();
GetBalances ==
  /\ op = "send_to_eth" /\ pc = "GetBalances"
  /\ calls' = Append(calls, "get_balances")
  /\ \E answer \in {Err("grpc")} \cup {Ok(b) : b \in BalanceAnswers} :
       IF answer.ok
         THEN /\ balances' = answer.val
              /\ pc' = "ScanBalances"
              /\ UNCHANGED result
         ELSE /\ Return("Panic")
              /\ UNCHANGED balances
  /\ UNCHANGED <<op, sent, claimInputs, claimLocals, msgs, confirmInputs, req, chain_fee>>

\* The balance loop and `if !found { return Err(BadInput(..)); }`
ScanBalances ==
  /\ op = "send_to_eth" /\ pc = "ScanBalances"
  /\ LET scan == scan_balances(balances, req.amount, req.fee, FALSE)
     IN IF scan.insufficient THEN Return("BadInput_InsufficientBalance")
        ELSE IF ~scan.found THEN Return("BadInput_NoBalance")
        ELSE pc' = "DispatchTransfer" /\ UNCHANGED result
  /\ UNCHANGED <<op, calls, sent, claimInputs, claimLocals, msgs, confirmInputs,
                 transferState>>

\* The MsgSendToEth (send.rs:461-473).
send_to_eth_msg(amount, bridge_fee, chainFee) ==
  [type_url |-> "/gravity.v1.MsgSendToEth",
   sender |-> our_cosmos_address,
   eth_dest |-> "0xdest",
   amount |-> Some(amount),
   bridge_fee |-> Some(bridge_fee),
   chain_fee |-> Some(chainFee)]

\* contact.send_message(&[msg], Some(MEMO), &[fee], Some(TIMEOUT), key).await
DispatchTransfer ==
  /\ op = "send_to_eth" /\ pc = "DispatchTransfer"
  /\ msgs' = <<send_to_eth_msg(req.amount, req.bridge_fee, chain_fee.val)>>
  /\ SendMessage(msgs', "Ok_Tx")
  /\ UNCHANGED <<op, claimInputs, claimLocals, confirmInputs, transferState>>

SendToEth ==
  \/ CheckBridgeFeeDenom \/ DefaultChainFee \/ CheckChainFeeDenom \/ GetBalances
  \/ ScanBalances \/ DispatchTransfer

\* ---------------------------------------------------------------- specification
\* One invocation of one function of send.rs.
Next == SendEthereumClaims \/ SendConfirms \/ SendToEth

Spec == Init /\ [][Next]_vars

\* One invocation, and for send_ethereum_claims a second one on the same inputs.
NextRerun == Next \/ Reinvoke

SpecRerun == Init /\ [][NextRerun]_vars


\* ---------------------------------------------------------------- vocabulary of the properties
IsClaims == op = "send_ethereum_claims"
Nonce(msg) == msg.event.event_nonce
Elems(list) == {list[i] : i \in 1..Len(list)}
Min(a, b) == IF a < b THEN a ELSE b
\* The n smallest members of a set of numbers.
LowestN(B, n) == {b \in B : Cardinality({x \in B : x < b}) < n}

\* The (event_nonce, Msg) pairs built by the five create_claim_msgs calls.
BuiltChain == ChainFrom(nonces_msgs, 1)
BuiltNonces == {BuiltChain[i][1] : i \in 1..Len(BuiltChain)}
BuiltCollision ==
  \E i, j \in 1..Len(BuiltChain) : i # j /\ BuiltChain[i][1] = BuiltChain[j][1]

\* Positions of the input: list and index.
Positions == {<<v, i>> : v \in VariantSet, i \in 1..MaxEvents + Cardinality(Nonces)}
InputPositions == {p \in Positions : p[2] <= Len(events[p[1]])}
EventAt(p) == events[p[1]][p[2]]
AllListsEmpty == \A v \in VariantSet : events[v] = << >>
CrossVariantCollision ==
  \E p, q \in InputPositions :
    p[1] # q[1] /\ EventAt(p).event_nonce = EventAt(q).event_nonce

\* The configuration of the run, read from the answers it is given.
MonitoringRequired == env.gov.ok /\ env.gov.val # {}
SnapshotGiven == MonitoringRequired /\ env.provider.ok
HeightPresent(p) == EventAt(p).block_height \in DOMAIN env.provider.val

EarlyErrors == {"Err_Gov", "Err_Provider", "Err_NoBalances"}
BadInputs == {"BadInput_BridgeFeeDenom", "BadInput_ChainFeeDenom",
              "BadInput_InsufficientBalance", "BadInput_NoBalance"}
\* The results of an invocation that reached contact.send_message.
DispatchResults == {"Ok_Some", "Ok_Tx", "Err_CosmosGrpc"}
\* Positions of send_ethereum_claims after the insertion into unordered_msgs.
AfterInsert == {"CheckEmpty", "CollectKeys", "SortKeys", "PushMsgs", "Truncate",
                "DispatchClaims"}
Inserted == IsClaims /\ (pc \in AfterInsert \/ (pc = "Done" /\ result \notin EarlyErrors))

\* ---------------------------------------------------------------- C1
\* C1 (ordering invariant): every message list send_ethereum_claims hands to
\* the dispatcher is strictly ascending in the source event's event_nonce:
\* event_nonce[i] < event_nonce[i+1] for all adjacent positions.
C1_StrictlyAscending ==
  IsClaims =>
    \A k \in 1..Len(sent) : \A i \in 1..(Len(sent[k]) - 1) :
      Nonce(sent[k][i]) < Nonce(sent[k][i + 1])

\* Two claims were dispatched, the one built from the last list of the chain
\* (valsets) ahead of the one built from the first (deposits).
C1_Witness ==
  /\ IsClaims /\ Len(sent) = 1 /\ Len(sent[1]) = 2
  /\ sent[1][1].claim = "valsets" /\ sent[1][2].claim = "deposits"

\* ---------------------------------------------------------------- C2
\* C2 (truncation policy): when more claims were built than MAX_ORACLE_MESSAGES,
\* exactly MAX_ORACLE_MESSAGES messages are dispatched and they are the built
\* claims with the lowest event nonces; otherwise every built claim is
\* dispatched.  No dispatched nonce is greater than a built but discarded one.
C2_KeepsLowestNonces ==
  (IsClaims /\ Len(sent) >= 1) =>
    LET D == {Nonce(m) : m \in Elems(sent[1])}
    IN /\ Elems(sent[1]) \subseteq {BuiltChain[i][2] : i \in 1..Len(BuiltChain)}
       /\ Len(sent[1]) = Min(Cardinality(BuiltNonces), MAX_ORACLE_MESSAGES)
       /\ D = LowestN(BuiltNonces, MAX_ORACLE_MESSAGES)
       /\ \A d \in D : \A x \in BuiltNonces \ D : d < x

\* More claims were built than the cap and the list was dispatched.
C2_Witness ==
  /\ IsClaims /\ Len(sent) = 1
  /\ Cardinality(BuiltNonces) > MAX_ORACLE_MESSAGES
  /\ Len(sent[1]) = MAX_ORACLE_MESSAGES

\* ---------------------------------------------------------------- C3
\* C3 as stated (no-duplicate invariant): no two dispatched messages share an
\* event_nonce, and every input in which two events of different variants carry
\* the same event_nonce ends in the assertion failure with no dispatcher call.
\* (Errors returned before any claim is built are not held against it.)
C3_AnyCollisionPanics ==
  IsClaims =>
    /\ \A k \in 1..Len(sent) : \A i, j \in 1..Len(sent[k]) :
         Nonce(sent[k][i]) = Nonce(sent[k][j]) => i = j
    /\ (CrossVariantCollision /\ pc = "Done" /\ result \notin EarlyErrors)
         => (result = "Panic" /\ sent = << >>)

\* C3 as amended: no two dispatched messages share an event_nonce, and the
\* invocation ends in the assertion failure, with no dispatcher call, exactly
\* when two of the claims that were built carry the same event_nonce.
C3_BuiltCollisionPanics ==
  IsClaims =>
    /\ \A k \in 1..Len(sent) : \A i, j \in 1..Len(sent[k]) :
         Nonce(sent[k][i]) = Nonce(sent[k][j]) => i = j
    /\ Inserted => (BuiltCollision <=> result = "Panic")
    /\ result = "Panic" => (sent = << >> /\ "send_message" \notin Elems(calls))

\* Claims of two different variants with one event_nonce were built and the
\* invocation panicked.
C3_Witness ==
  /\ IsClaims /\ result = "Panic" /\ CrossVariantCollision
  /\ \E i, j \in 1..Len(BuiltChain) :
       /\ BuiltChain[i][1] = BuiltChain[j][1]
       /\ BuiltChain[i][2].claim # BuiltChain[j][2].claim


\* ---------------------------------------------------------------- C4
\* Positions whose event gets a claim when a snapshot is required: those whose
\* block_height is a key of the snapshot.
PresentPositions == {p \in InputPositions : HeightPresent(p)}
PresentCollision ==
  \E p, q \in PresentPositions : p # q /\ EventAt(p).event_nonce = EventAt(q).event_nonce
\* The claim of the event at position p, carrying the balances of its height.
ClaimOf(p) ==
  ToClaimMsg(p[1], EventAt(p), our_cosmos_address, env.provider.val[EventAt(p).block_height])
SomeSkippedSomePresent ==
  /\ IsClaims /\ SnapshotGiven
  /\ \E p \in InputPositions : ~HeightPresent(p)
  /\ PresentPositions # {}

\* C4 (skip-not-fail): when monitoring is required and the snapshot lacks the
\* height of some event but has the height of another, the invocation returns
\* no error of its own: it dispatches the claims of exactly the events whose
\* height is present, lowest nonces first up to the cap, and no claim of an
\* event whose height is absent.  (Two present events with one nonce are the
\* fatal case of C3, the only other way the invocation can end.)
C4_SkipNotFail ==
  (SomeSkippedSomePresent /\ pc = "Done") =>
    /\ result \in {"Ok_Some", "Err_CosmosGrpc", "Panic"}
    /\ result = "Panic" <=> PresentCollision
    /\ ~PresentCollision =>
         LET kept == LowestN({EventAt(p).event_nonce : p \in PresentPositions},
                             MAX_ORACLE_MESSAGES)
         IN /\ Len(sent) = 1
            /\ Elems(sent[1]) =
                 {ClaimOf(p) : p \in {q \in PresentPositions : EventAt(q).event_nonce \in kept}}
            /\ Len(sent[1]) = Cardinality(kept)
            /\ \A p \in InputPositions : \A m \in Elems(sent[1]) :
                 ~HeightPresent(p) =>
                   ~(m.claim = p[1] /\ m.event = EventAt(p))

\* An event ahead of another in the same list was skipped for its missing
\* height, and the claim of the other was dispatched successfully.
C4_Witness ==
  /\ SomeSkippedSomePresent /\ pc = "Done" /\ result = "Ok_Some"
  /\ \E v \in VariantSet :
       /\ Len(events[v]) >= 2
       /\ ~HeightPresent(<<v, 1>>)
       /\ HeightPresent(<<v, 2>>)
       /\ sent[1] = <<ClaimOf(<<v, 2>>)>>

DispatcherCalls == Cardinality({i \in 1..Len(calls) : calls[i] = "send_message"})

\* C7 as stated (single atomic dispatch): every invocation calls the dispatcher
\* exactly once.
C7_ExactlyOneCall ==
  pc = "Done" => DispatcherCalls = 1

\* C7 as amended: an invocation calls the dispatcher at most once, and exactly
\* once unless it ends early (an error return, BadInput, Ok(None) or a panic);
\* the one call is the last thing the invocation does, it passes the complete
\* final message list, and a dispatcher failure is returned without a retry.
C7_AtMostOneCompleteCall ==
  /\ DispatcherCalls = Len(sent)
  /\ Len(sent) <= 1
  /\ pc = "Done" => (Len(sent) = 1 <=> result \in DispatchResults)
  /\ Len(sent) = 1 =>
       /\ pc = "Done"
       /\ sent[1] = msgs
       /\ calls[Len(calls)] = "send_message"
       /\ IsClaims =>
            Len(sent[1]) = Min(Cardinality(BuiltNonces), MAX_ORACLE_MESSAGES)
       /\ op \in {"send_valset_confirms", "send_batch_confirm", "send_logic_call_confirm"}
            => Len(sent[1]) = Len(artifacts)
       /\ op = "send_to_eth" => Len(sent[1]) = 1

\* A confirmation sender whose one dispatch of two messages failed.
C7_Witness ==
  /\ op = "send_batch_confirm" /\ pc = "Done" /\ result = "Err_CosmosGrpc"
  /\ Len(sent) = 1 /\ Len(sent[1]) = 2


\* ---------------------------------------------------------------- C8
\* C8 (determinism): a second invocation of send_ethereum_claims with the same
\* events per list, in whatever order inside each list, and the same snapshot
\* hands the dispatcher the same message sequence as the first, whatever order
\* the hash map yields its keys in: same messages, same order, same truncation.
C8_SameDispatch ==
  (IsClaims /\ prev.is_some /\ pc = "Done") =>
    /\ sent = prev.val.sent
    /\ (result \in DispatchResults) <=> (prev.val.result \in DispatchResults)

\* Both invocations have dispatched two claims, and some input list holds its
\* events in descending nonce order.
C8_Witness ==
  /\ IsClaims /\ prev.is_some /\ pc = "Done"
  /\ Len(sent) = 1 /\ Len(sent[1]) = 2 /\ Len(prev.val.sent) = 1
  /\ \E v \in VariantSet :
       /\ Len(events[v]) >= 2
       /\ events[v][1].event_nonce > events[v][2].event_nonce

\* ---------------------------------------------------------------- C9
\* C9 (denomination guard): when the amount's denomination differs from the
\* bridge fee's, send_to_eth returns BadInput before the fee recommendation is
\* queried, before the balances are fetched, and without a dispatcher call,
\* whatever the chain fee, the transaction fee and the balances are.
C9_DenomGuard ==
  (op = "send_to_eth" /\ req.amount.denom # req.bridge_fee.denom) =>
    /\ pc \in {"CheckBridgeFeeDenom", "Done"}
    /\ pc = "Done" => result = "BadInput_BridgeFeeDenom"
    /\ "get_reasonable_send_to_eth_fee" \notin Elems(calls)
    /\ "get_balances" \notin Elems(calls)
    /\ calls = << >> /\ sent = << >>

\* Amount in ugraviton, bridge fee in uatom, no explicit chain fee: rejected.
C9_Witness ==
  /\ op = "send_to_eth" /\ pc = "Done"
  /\ req.amount.denom = "ugraviton" /\ req.bridge_fee.denom = "uatom"
  /\ ~req.chain_fee.is_some
  /\ result = "BadInput_BridgeFeeDenom"

\* ---------------------------------------------------------------- C10
\* amount + 2 x (transaction fee magnitude)
Needed == req.amount.amount + 2 * req.fee.amount
SufficientEntry ==
  \E i \in 1..Len(balances) :
    balances[i].denom = req.amount.denom /\ balances[i].amount >= Needed
\* The balances have been fetched and both denomination checks were passed.
BalancesFetched ==
  /\ op = "send_to_eth"
  /\ "get_balances" \in Elems(calls)
  /\ result # "Panic"

\* C10 (sufficiency guard): the transfer is dispatched only if the balances
\* hold an entry of the amount's denomination of at least amount + 2 x fee; if
\* the entry is smaller, or there is no such entry, the result is BadInput and
\* the dispatcher is not called.
C10_SufficiencyGuard ==
  /\ (op = "send_to_eth" /\ Len(sent) >= 1) => SufficientEntry
  /\ (BalancesFetched /\ pc = "Done" /\ ~SufficientEntry) =>
       /\ result \in {"BadInput_InsufficientBalance", "BadInput_NoBalance"}
       /\ sent = << >> /\ "send_message" \notin Elems(calls)
       /\ result = "BadInput_NoBalance" <=>
            (\A i \in 1..Len(balances) : balances[i].denom # req.amount.denom)

\* The balance covers the amount and one transaction fee but not two, and the
\* request was rejected.
C10_Witness ==
  /\ BalancesFetched /\ pc = "Done" /\ result = "BadInput_InsufficientBalance"
  /\ req.fee.amount > 0
  /\ \E i \in 1..Len(balances) :
       /\ balances[i].denom = req.amount.denom
       /\ balances[i].amount >= req.amount.amount + req.fee.amount
       /\ balances[i].amount < Needed


\* ---------------------------------------------------------------- C11
ConfirmOps == {"send_valset_confirms", "send_batch_confirm", "send_logic_call_confirm"}
\* The artifact kind a confirmation sender encodes.
KindOf(o) ==
  CASE o = "send_valset_confirms" -> "valset"
    [] o = "send_batch_confirm" -> "batch"
    [] OTHER -> "logic_call"
\* The message carries the identifying fields of the artifact and the message
\* type of the sender o.
CarriesIdentity(o, m, a) ==
  CASE o = "send_valset_confirms" ->
         m.type_url = "/gravity.v1.MsgValsetConfirm" /\ m.nonce = a.nonce
    [] o = "send_batch_confirm" ->
         /\ m.type_url = "/gravity.v1.MsgConfirmBatch"
         /\ m.nonce = a.nonce /\ m.token_contract = a.token_contract
    [] OTHER ->
         /\ m.type_url = "/gravity.v1.MsgConfirmLogicCall"
         /\ m.invalidation_id = <<"hex", a.invalidation_id>>
         /\ m.invalidation_nonce = a.invalidation_nonce
\* The message's signature is the hex form of a signature by the orchestrator's
\* Ethereum key over the encoding of artifact a of kind k under domain id.
SignedOver(m, k, id, a) ==
  /\ m.signature[1] = "hex"
  /\ m.signature[2].signer = eth_private_key
  /\ m.signature[2].signed = <<k, id, a>>

\* C11 (confirmation batching): a confirmation sender given n artifacts builds
\* exactly n messages, one per artifact in input order, the i-th carrying the
\* i-th artifact's identifying fields and a signature over that artifact's
\* encoding under the given domain identifier; all n go to the dispatcher in
\* one call, and no message carries the signature of a different artifact.
C11_OneConfirmPerArtifact ==
  (op \in ConfirmOps) =>
    /\ pc = "Done" => Len(sent) = 1
    /\ \A k \in 1..Len(sent) :
         /\ Len(sent[k]) = Len(artifacts)
         /\ \A i \in 1..Len(artifacts) :
              /\ CarriesIdentity(op, sent[k][i], artifacts[i])
              /\ SignedOver(sent[k][i], KindOf(op), gravity_id, artifacts[i])
              /\ sent[k][i].orchestrator = our_cosmos_address
         /\ \A i, j \in 1..Len(artifacts) :
              (artifacts[i] # artifacts[j]) => sent[k][i].signature # sent[k][j].signature

\* Two different logic calls, the second with the lower invalidation nonce,
\* were confirmed under domain gravity-B in one dispatcher call.
C11_Witness ==
  /\ op = "send_logic_call_confirm" /\ pc = "Done" /\ gravity_id = "gravity-B"
  /\ Len(artifacts) = 2 /\ Len(sent) = 1 /\ Len(sent[1]) = 2
  /\ artifacts[1].invalidation_id # artifacts[2].invalidation_id
  /\ artifacts[1].invalidation_nonce > artifacts[2].invalidation_nonce


\* ---------------------------------------------------------------- C12
\* The five create_claim_msgs calls have returned.
ClaimsCreated == IsClaims /\ (pc = "InsertClaims" \/ Inserted)
\* The i-th event of list v yields a message: no snapshot is required, or its
\* block_height is a key of the snapshot.
Yields(v, i) ==
  \/ ~eth_balances_by_block_height.is_some
  \/ events[v][i].block_height \in DOMAIN eth_balances_by_block_height.val
YieldingIndexes(v) == {i \in 1..Len(events[v]) : Yields(v, i)}
\* The index in list v of its k-th yielding event.
KthYielding(v, k) ==
  CHOOSE i \in YieldingIndexes(v) : Cardinality({j \in YieldingIndexes(v) : j <= i}) = k
\* The balance list the claim of the i-th event of list v is to carry.
StoredBalances(v, i) ==
  IF eth_balances_by_block_height.is_some
    THEN eth_balances_by_block_height.val[events[v][i].block_height]
    ELSE << >>

\* C12 (claim builder contract): create_claim_msgs returns zero or one
\* (event_nonce, message) pair per event, in input order.  Without a snapshot
\* every event yields one message with an empty balance list.  With a snapshot
\* an event yields a message if and only if its block_height is a key of the
\* snapshot, and the message carries exactly the list stored under that
\* height, also when that list is empty.
C12_ClaimBuilderContract ==
  ClaimsCreated =>
    \A v \in VariantSet :
      /\ Len(nonces_msgs[v]) = Cardinality(YieldingIndexes(v))
      /\ ~eth_balances_by_block_height.is_some => Len(nonces_msgs[v]) = Len(events[v])
      /\ \A k \in 1..Len(nonces_msgs[v]) :
           LET i == KthYielding(v, k)
               pair == nonces_msgs[v][k]
           IN /\ pair[1] = events[v][i].event_nonce
              /\ pair[2].claim = v
              /\ pair[2].event = events[v][i]
              /\ pair[2].orchestrator = our_cosmos_address
              /\ pair[2].bridge_balances = StoredBalances(v, i)

\* A list of two events under a snapshot that lacks the first event's height
\* and stores an empty list under the second's: one pair, for the second
\* event, with an empty balance list.
C12_Witness ==
  /\ ClaimsCreated /\ eth_balances_by_block_height.is_some
  /\ \E v \in VariantSet :
       /\ Len(events[v]) = 2
       /\ ~Yields(v, 1) /\ Yields(v, 2)
       /\ StoredBalances(v, 2) = << >>
       /\ Len(nonces_msgs[v]) = 1
       /\ nonces_msgs[v][1][2].event = events[v][2]
       /\ nonces_msgs[v][1][2].bridge_balances = << >>

====
